---- MODULE Spec2Model ----
(***************************************************************************)
(* The estimators of contract/ml_services.py (price, quality, yield and    *)
(* contract risk) and the places of contract/views.py and                  *)
(* contract/serializers.py that hand their results to a caller.            *)
(*                                                                         *)
(* Numbers.  A Python number is a record [ty, v]: ty is the Python type    *)
(* ("int", "float", "Decimal") and v the value, an exact rational <<n, d>> *)
(* in lowest terms with d > 0.  The type is kept because the code mixes    *)
(* Decimal (every DecimalField of models.py) with float literals, and      *)
(* Decimal * float raises TypeError.  Floats are modelled by their exact   *)
(* real value: binary representation error is not modelled.  None is       *)
(* [ty |-> "None"], and an exception travelling up the call stack is       *)
(* [ty |-> "raise", exc |-> <its class>].                                   *)
(***************************************************************************)
EXTENDS Integers, Sequences, FiniteSets, TLC

VARIABLES
    ML_SERVICES_AVAILABLE,  \* views.py:25/28, serializers.py:11/13: did `from .ml_services import ...` succeed
    price_model,            \* PricePredictionService.model is not None
    quality_model,          \* QualityAssessmentService.model is not None
    Crop,                   \* the Crop table: id -> row
    MarketPrice,            \* price_per_quintal of the MarketPrice rows of crop 1 dated within the last 30 days
    call,                   \* the operation in progress and its arguments
    result,                 \* what that operation handed to its caller
    last_price,             \* the last outcome of predict_price a client has kept, for as long
                            \* as the rows it was computed from are stored unchanged
    Contract,               \* the Contract table: id -> row
    Review,                 \* the Review table: contract id -> row (contract is a OneToOneField)
    assessing               \* an assess_contract_risk running in another request thread

vars == <<ML_SERVICES_AVAILABLE, price_model, quality_model, Crop, MarketPrice, call, result,
          last_price, Contract, Review, assessing>>

----------------------------------------------------------------------------
(* Bounds of the model *)

MaxContracts == 2
MaxPrices == 2
MaxImages == 1

----------------------------------------------------------------------------
(* Exact rationals *)

Abs(x) == IF x < 0 THEN -x ELSE x

RECURSIVE GCD(_, _)
GCD(a, b) == IF b = 0 THEN a ELSE GCD(b, a % b)

Q(n, d) ==
    LET s == IF d < 0 THEN -1 ELSE 1
        g == GCD(Abs(n), Abs(d))
    IN  <<(s * n) \div g, (s * d) \div g>>

RAdd(a, b) == Q(a[1] * b[2] + b[1] * a[2], a[2] * b[2])
RSub(a, b) == Q(a[1] * b[2] - b[1] * a[2], a[2] * b[2])
RMul(a, b) == Q(a[1] * b[1], a[2] * b[2])
RDiv(a, b) == Q(a[1] * b[2], a[2] * b[1])
RLt(a, b) == a[1] * b[2] < b[1] * a[2]
RLe(a, b) == a[1] * b[2] <= b[1] * a[2]

RECURSIVE Pow10(_)
Pow10(k) == IF k = 0 THEN 1 ELSE 10 * Pow10(k - 1)

\* round(x, k) of Python: to the nearest multiple of 10^-k, an exact tie to the even one
RRound(a, k) ==
    LET num == a[1] * Pow10(k)
        lo == num \div a[2]
        twice == 2 * (num - lo * a[2])
        up == \/ twice > a[2]
              \/ twice = a[2] /\ lo % 2 = 1
    IN  Q(IF up THEN lo + 1 ELSE lo, Pow10(k))

----------------------------------------------------------------------------
(* Python values *)

None == [ty |-> "None"]
PyInt(n) == [ty |-> "int", v |-> Q(n, 1)]
PyFloat(n, d) == [ty |-> "float", v |-> Q(n, d)]
PyDecimal(n, d) == [ty |-> "Decimal", v |-> Q(n, d)]
Raise(e) == [ty |-> "raise", exc |-> e]

IsRaise(x) == x.ty = "raise"
IsNumber(x) == x.ty \in {"int", "float", "Decimal"}

\* bool(x): None and zero are falsy
Truthy(x) == IsNumber(x) /\ x.v[1] # 0

\* `a or b`
Or(a, b) == IF Truthy(a) THEN a ELSE b

\* the type of a binary arithmetic result; Decimal with float is unsupported
ArithType(a, b) ==
    IF {a.ty, b.ty} = {"Decimal", "float"} THEN "TypeError"
    ELSE IF "float" \in {a.ty, b.ty} THEN "float"
    ELSE IF "Decimal" \in {a.ty, b.ty} THEN "Decimal"
    ELSE "int"

Arith(a, b, v) ==
    IF IsRaise(a) THEN a
    ELSE IF IsRaise(b) THEN b
    ELSE IF ~(IsNumber(a) /\ IsNumber(b)) \/ ArithType(a, b) = "TypeError" THEN Raise("TypeError")
    ELSE [ty |-> ArithType(a, b), v |-> v]

Add(a, b) == Arith(a, b, IF IsNumber(a) /\ IsNumber(b) THEN RAdd(a.v, b.v) ELSE <<0, 1>>)
Sub(a, b) == Arith(a, b, IF IsNumber(a) /\ IsNumber(b) THEN RSub(a.v, b.v) ELSE <<0, 1>>)
Mul(a, b) == Arith(a, b, IF IsNumber(a) /\ IsNumber(b) THEN RMul(a.v, b.v) ELSE <<0, 1>>)

\* a / b: true division; int / int is a float
Div(a, b) ==
    IF IsRaise(a) THEN a
    ELSE IF IsRaise(b) THEN b
    ELSE IF ~(IsNumber(a) /\ IsNumber(b)) \/ ArithType(a, b) = "TypeError" THEN Raise("TypeError")
    ELSE IF b.v[1] = 0 THEN Raise("ZeroDivisionError")
    ELSE [ty |-> IF ArithType(a, b) = "int" THEN "float" ELSE ArithType(a, b), v |-> RDiv(a.v, b.v)]

\* round(x, k) keeps the type of x
Round(x, k) == IF IsRaise(x) THEN x ELSE [ty |-> x.ty, v |-> RRound(x.v, k)]

\* min(a, b): b only when b < a
PyMin(a, b) == IF RLt(b.v, a.v) THEN b ELSE a

----------------------------------------------------------------------------
(* ContractRiskAssessment (ml_services.py:338-462)                          *)
(*                                                                          *)
(* A contract, as the estimator reads it:                                   *)
(*   farmer, buyer : [completed, total], the counts of                      *)
(*       farmer.farmer_contracts / buyer.buyer_contracts                    *)
(*   price_volatility_score : listing.crop.price_volatility_score,          *)
(*       a nullable FloatField without validators (models.py:42)            *)
(*   agreed_quantity, quantity_available : DecimalFields                    *)
(* A count of 0 is what the estimator reads for a Contract instance that is *)
(* not (or, after a concurrent delete, no longer) a row of the table.       *)

\* farmer.farmer_contracts.count() = 0 returns 0.5; otherwise line 396 evaluates
\* models.Avg, and ml_services.py imports no name `models`: NameError
assess_farmer_reliability(farmer) ==
    IF farmer.total = 0 THEN PyFloat(1, 2) ELSE Raise("NameError")

assess_buyer_reliability(buyer) ==
    IF buyer.total = 0 THEN PyFloat(1, 2)
    ELSE Sub(PyInt(1), Div(PyInt(buyer.completed), PyInt(buyer.total)))

assess_crop_volatility(price_volatility_score) == Or(price_volatility_score, PyFloat(1, 2))

assess_weather_risk == PyFloat(3, 10)

assess_market_risk == PyFloat(2, 5)

assess_quantity_risk(contracted_quantity, available_quantity) ==
    IF available_quantity.v[1] = 0 THEN PyFloat(1, 1)
    ELSE LET ratio == Div(contracted_quantity, available_quantity)
         IN  IF RLt(<<1, 1>>, ratio.v) THEN PyMin(Sub(ratio, PyInt(1)), PyFloat(1, 1))
             ELSE PyFloat(1, 10)

categorize_risk_le(risk_score) ==
    IF RLe(risk_score.v, <<3, 10>>) THEN "low"
    ELSE IF RLe(risk_score.v, <<3, 5>>) THEN "medium"
    ELSE "high"

categorize_risk(risk_score) ==
    IF RLt(risk_score.v, <<3, 10>>) THEN "low"
    ELSE IF RLt(risk_score.v, <<3, 5>>) THEN "medium"
    ELSE "high"

\* the keys of risk_factors, in the insertion order the sum iterates in
RiskFactorNames ==
    <<"farmer_reliability", "buyer_reliability", "crop_volatility",
      "weather_risk", "market_risk", "quantity_risk">>

weights_skewed ==
    [farmer_reliability |-> PyFloat(25, 100), buyer_reliability |-> PyFloat(20, 100),
     crop_volatility |-> PyFloat(15, 100), weather_risk |-> PyFloat(15, 100),
     market_risk |-> PyFloat(15, 100), quantity_risk |-> PyFloat(15, 100)]

weights ==
    [farmer_reliability |-> PyFloat(25, 100), buyer_reliability |-> PyFloat(20, 100),
     crop_volatility |-> PyFloat(15, 100), weather_risk |-> PyFloat(15, 100),
     market_risk |-> PyFloat(15, 100), quantity_risk |-> PyFloat(10, 100)]

\* sum(risk_factors[factor] * weights[factor] for factor in risk_factors), from int 0
RECURSIVE weighted_sum(_, _)
weighted_sum(risk_factors, i) ==
    IF i = 0 THEN PyInt(0)
    ELSE Add(weighted_sum(risk_factors, i - 1),
             Mul(risk_factors[RiskFactorNames[i]], weights[RiskFactorNames[i]]))

get_risk_recommendations(overall_risk, risk_factors) ==
    LET r1 == IF RLt(<<7, 10>>, overall_risk.v)
              THEN <<"High risk contract - consider additional safeguards">> ELSE <<>>
        r2 == IF RLt(<<3, 5>>, risk_factors.farmer_reliability.v)
              THEN <<"Farmer has limited track record - consider milestone payments">> ELSE <<>>
        r3 == IF RLt(<<3, 5>>, risk_factors.weather_risk.v)
              THEN <<"High weather risk - consider crop insurance">> ELSE <<>>
        recommendations == r1 \o r2 \o r3
    IN  IF recommendations = <<>>
        THEN <<"Low risk contract - proceed with standard terms">>
        ELSE recommendations

\* the except branch of assess_contract_risk
risk_error_fallback == [overall_risk_score |-> PyFloat(1, 2), risk_level |-> "medium"]

assess_contract_risk(contract) ==
    LET risk_factors ==
            [farmer_reliability |-> assess_farmer_reliability(contract.farmer),
             buyer_reliability |-> assess_buyer_reliability(contract.buyer),
             crop_volatility |-> assess_crop_volatility(contract.price_volatility_score),
             weather_risk |-> assess_weather_risk,
             market_risk |-> assess_market_risk,
             quantity_risk |-> assess_quantity_risk(contract.agreed_quantity,
                                                    contract.quantity_available)]
        overall_risk == weighted_sum(risk_factors, Len(RiskFactorNames))
    IN  IF \E i \in 1..Len(RiskFactorNames) : IsRaise(risk_factors[RiskFactorNames[i]])
        THEN risk_error_fallback
        ELSE IF IsRaise(overall_risk)
        THEN risk_error_fallback
        ELSE [overall_risk_score |-> Round(overall_risk, 3),
              risk_level |-> categorize_risk(overall_risk),
              risk_factors |-> risk_factors,
              recommendations |-> get_risk_recommendations(overall_risk, risk_factors)]

----------------------------------------------------------------------------------------------------------------------------------------
(* PricePredictionService (ml_services.py:16-156)                           *)
(*                                                                          *)
(* A Crop row is [average_yield_per_acre, current_market_price], nullable   *)
(* DecimalFields (models.py:39-40).  The table holds at most the row of id  *)
(* 1, so Crop is <<>> or <<row>>.                                           *)

RECURSIVE SeqSum(_)
SeqSum(prices) ==
    IF prices = <<>> THEN PyInt(0) ELSE Add(prices[1], SeqSum(Tail(prices)))

\* np.mean(list(recent_prices)): the sum of the Decimals over their count
mean(prices) == Div(SeqSum(prices), PyInt(Len(prices)))

\* MarketPrice.objects.filter(crop=crop, date__gte=today - 30 days)
recent_prices(crop_id) == IF crop_id = 1 THEN MarketPrice ELSE <<>>

\* a dict literal whose values are evaluated in order: the first exception wins
FirstRaise(values, dict) ==
    IF \E i \in 1..Len(values) : IsRaise(values[i])
    THEN values[CHOOSE i \in 1..Len(values) :
                    IsRaise(values[i]) /\ \A j \in 1..(i - 1) : ~IsRaise(values[j])]
    ELSE dict

fallback_prediction(crop_id) ==
    IF crop_id \notin DOMAIN Crop THEN Raise("DoesNotExist")
    ELSE IF recent_prices(crop_id) # <<>>
    THEN LET avg_price == mean(recent_prices(crop_id))
             predicted == Round(avg_price, 2)
             min == Round(Mul(avg_price, PyFloat(85, 100)), 2)
             max == Round(Mul(avg_price, PyFloat(115, 100)), 2)
         IN  FirstRaise(<<predicted, min, max>>,
                        [predicted_price |-> predicted,
                         confidence |-> PyFloat(6, 10),
                         price_range |-> [min |-> min, max |-> max]])
    ELSE LET current == Or(Crop[crop_id].current_market_price, PyInt(0))
         IN  [predicted_price |-> current,
              confidence |-> PyFloat(3, 10),
              price_range |-> [min |-> PyInt(0), max |-> Mul(current, PyInt(2))]]

\* predict_price with self.model loaded.  `ml` is what the learned pipeline
\* (scaler.transform, model.predict) does with the features: a price, or an exception.
\* _prepare_features looks the crop up first (line 74).
predict_price_with_model(crop_id, ml) ==
    IF crop_id \notin DOMAIN Crop \/ IsRaise(ml) THEN fallback_prediction(crop_id)
    ELSE [predicted_price |-> Round(ml, 2),
          confidence |-> PyFloat(3, 4),
          price_range |-> [min |-> Round(Mul(ml, PyFloat(9, 10)), 2),
                           max |-> Round(Mul(ml, PyFloat(11, 10)), 2)]]

predict_price(crop_id, ml) ==
    IF ~price_model THEN fallback_prediction(crop_id)
    ELSE predict_price_with_model(crop_id, ml)

----------------------------------------------------------------------------
(* QualityAssessmentService (ml_services.py:159-254)                        *)

score_to_grade_gt(score) ==
    IF RLt(<<9, 10>>, score.v) THEN "A+"
    ELSE IF RLt(<<8, 10>>, score.v) THEN "A"
    ELSE IF RLt(<<7, 10>>, score.v) THEN "B+"
    ELSE IF RLt(<<6, 10>>, score.v) THEN "B"
    ELSE "C"

score_to_grade_low_b(score) ==
    IF RLe(<<9, 10>>, score.v) THEN "A+"
    ELSE IF RLe(<<8, 10>>, score.v) THEN "A"
    ELSE IF RLe(<<7, 10>>, score.v) THEN "B+"
    ELSE IF RLe(<<59, 100>>, score.v) THEN "B"
    ELSE "C"

score_to_grade(score) ==
    IF RLe(<<9, 10>>, score.v) THEN "A+"
    ELSE IF RLe(<<8, 10>>, score.v) THEN "A"
    ELSE IF RLe(<<7, 10>>, score.v) THEN "B+"
    ELSE IF RLe(<<6, 10>>, score.v) THEN "B"
    ELSE "C"

get_recommendations(score) ==
    IF RLe(<<8, 10>>, score.v)
    THEN <<"Excellent quality! Consider premium pricing.", "Perfect for export markets.">>
    ELSE IF RLe(<<6, 10>>, score.v)
    THEN <<"Good quality.", "Suitable for domestic markets.", "Consider minor improvements.">>
    ELSE <<"Quality needs improvement.", "Consider better farming practices.",
           "May need processing.">>

fallback_assessment ==
    [quality_score |-> PyFloat(7, 10),
     ripeness_score |-> PyFloat(7, 10),
     quality_grade |-> "B+",
     health_indicators |-> [color_uniformity |-> PyFloat(7, 10),
                            size_consistency |-> PyFloat(7, 10),
                            defect_level |-> PyFloat(3, 10)],
     recommendations |-> <<"Manual assessment recommended.">>]

\* `ml` is what the learned pipeline (Image.open, model.predict) does with the image:
\* a prediction [quality, ripeness], or an exception
assess_quality(ml) ==
    IF ~quality_model \/ IsRaise(ml) THEN fallback_assessment
    ELSE [quality_score |-> Round(ml.quality, 3),
          ripeness_score |-> Round(ml.ripeness, 3),
          quality_grade |-> score_to_grade(ml.quality),
          health_indicators |->
              [color_uniformity |-> Round(Mul(ml.quality, PyFloat(9, 10)), 3),
               size_consistency |-> Round(Mul(ml.quality, PyFloat(85, 100)), 3),
               defect_level |-> Round(Mul(Sub(PyInt(1), ml.quality), PyFloat(7, 10)), 3)],
          recommendations |-> get_recommendations(ml.quality)]

----------------------------------------------------------------------------
(* YieldPredictionService (ml_services.py:257-335)                          *)
(*                                                                          *)
(* An image is [kind, ml]: kind "stored" is a CropImage row, whose          *)
(* image.path is a file (serializers.py:152), kind "uploaded" is a file of  *)
(* the request (views.py:443), whose .image has no attribute path; ml is    *)
(* what the quality pipeline does with the file.                            *)

farming_multiplier(farming_type) ==
    CASE farming_type = "organic" -> PyFloat(8, 10)
      [] farming_type = "traditional" -> PyFloat(1, 1)
      [] farming_type = "hydroponic" -> PyFloat(15, 10)
      [] farming_type = "mixed" -> PyFloat(11, 10)
      [] OTHER -> PyFloat(1, 1)

get_location_yield_factor == PyFloat(1, 1)

get_weather_yield_factor == PyFloat(1, 1)

\* total_health after the loop over images[1..i]
RECURSIVE total_health(_, _)
total_health(images, i) ==
    IF i = 0 THEN PyInt(0)
    ELSE IF IsRaise(total_health(images, i - 1)) THEN total_health(images, i - 1)
    ELSE IF images[i].kind = "uploaded" THEN Raise("AttributeError")
    ELSE Add(total_health(images, i - 1), assess_quality(images[i].ml).quality_score)

assess_crop_health_from_images(images) ==
    IF Len(images) > 0 THEN Div(total_health(images, Len(images)), PyInt(Len(images)))
    ELSE PyFloat(1, 1)

yield_error_fallback == [predicted_yield |-> PyInt(0), confidence |-> PyInt(0)]

predict_yield(crop_id, land_size, farming_type, images) ==
    IF crop_id \notin DOMAIN Crop THEN yield_error_fallback
    ELSE LET base_yield == Or(Crop[crop_id].average_yield_per_acre, PyInt(10))
             multiplier == farming_multiplier(farming_type)
             location_factor == get_location_yield_factor
             weather_factor == get_weather_yield_factor
             image_factor == IF images # <<>> THEN assess_crop_health_from_images(images)
                             ELSE PyFloat(1, 1)
             predicted_yield ==
                 Mul(Mul(Mul(Mul(Mul(base_yield, land_size), multiplier),
                             location_factor), weather_factor), image_factor)
             yield_per_acre == IF RLt(<<0, 1>>, land_size.v)
                               THEN Round(Div(predicted_yield, land_size), 2)
                               ELSE PyInt(0)
         IN  IF IsRaise(predicted_yield) \/ IsRaise(yield_per_acre) THEN yield_error_fallback
             ELSE [predicted_yield |-> Round(predicted_yield, 2),
                   yield_per_acre |-> yield_per_acre,
                   confidence |-> PyFloat(7, 10),
                   factors |-> [farming_type_factor |-> multiplier,
                                location_factor |-> location_factor,
                                weather_factor |-> weather_factor,
                                image_factor |-> image_factor]]

----------------
(* Inputs *)

Histories ==
    {[completed |-> c, total |-> t] : <<c, t>> \in
        {p \in (0..MaxContracts) \X (0..MaxContracts) : p[1] <= p[2]} \cup {<<8, 10>>}}

VolatilityScores ==
    {None, PyFloat(0, 1), PyFloat(399, 1000), PyFloat(2, 5), PyFloat(233, 500),
     PyFloat(3, 2)}

AgreedQuantities == {PyDecimal(q, 1) : q \in {50, 100, 150, 200, 300}}

AvailableQuantities == {PyDecimal(q, 1) : q \in {0, 100}}

Contracts ==
    [farmer : Histories, buyer : Histories, price_volatility_score : VolatilityScores,
     agreed_quantity : AgreedQuantities, quantity_available : AvailableQuantities]

Idle == [op |-> "idle"]
NoResult == [outcome |-> "none"]
NoPrice == [kept |-> FALSE]
NotAssessing == [pc |-> "idle"]
Returned(value) == [outcome |-> "returned", value |-> value]
Raised(e) == [outcome |-> "raised", exc |-> e.exc]

\* what a call that evaluates to x hands to its caller
Outcome(x) == IF "ty" \in DOMAIN x /\ x.ty = "raise" THEN Raised(x) ELSE Returned(x)

----------------------------------------------------------------------------
(* Operations on contract risk *)

\* risk_service.assess_contract_risk(contract): every call site runs it only when the
\* import succeeded (serializers.py:231-233, serializers.py:206-210, views.py:278-279)
AssessContractRisk ==
    /\ call = Idle
    /\ ML_SERVICES_AVAILABLE
    /\ \E contract \in Contracts :
        /\ call' = [op |-> "assess_contract_risk", contract |-> contract]
        /\ result' = Returned(assess_contract_risk(contract))
    /\ UNCHANGED <<ML_SERVICES_AVAILABLE, price_model, quality_model, Crop, MarketPrice, last_price, Contract, Review, assessing>>

\* ContractViewSet.risk_analysis (views.py:273-287)
RiskAnalysis ==
    /\ call = Idle
    /\ \E contract \in Contracts :
        /\ call' = [op |-> "risk_analysis", contract |-> contract]
        /\ result' = Returned(IF ML_SERVICES_AVAILABLE
                              THEN assess_contract_risk(contract)
                              ELSE [overall_risk_score |-> PyFloat(1, 2),
                                    risk_level |-> "medium",
                                    message |-> "ML services unavailable - using default assessment"])
    /\ UNCHANGED <<ML_SERVICES_AVAILABLE, price_model, quality_model, Crop, MarketPrice, last_price, Contract, Review, assessing>>

\* ContractSerializer.get_risk_assessment (serializers.py:204-212); the except
\* branch is dead, assess_contract_risk catching every Exception itself
GetRiskAssessment ==
    /\ call = Idle
    /\ \E contract \in Contracts :
        /\ call' = [op |-> "get_risk_assessment", contract |-> contract]
        /\ result' = Returned(IF ~ML_SERVICES_AVAILABLE
                              THEN [note |-> "Risk assessment unavailable",
                                    risk_level |-> "unknown"]
                              ELSE assess_contract_risk(contract))
    /\ UNCHANGED <<ML_SERVICES_AVAILABLE, price_model, quality_model, Crop, MarketPrice, last_price, Contract, Review, assessing>>

\* the caller has taken the result
Respond ==
    /\ call # Idle
    /\ call' = Idle
    /\ result' = NoResult
    /\ UNCHANGED <<ML_SERVICES_AVAILABLE, price_model, quality_model, Crop, MarketPrice, last_price, Contract, Review, assessing>>

InitRisk ==
    /\ ML_SERVICES_AVAILABLE \in BOOLEAN
    /\ price_model = FALSE
    /\ quality_model = FALSE
    /\ Crop = <<>>
    /\ MarketPrice = <<>>
    /\ call = Idle
    /\ result = NoResult
    /\ last_price = NoPrice
    /\ Contract = <<>>
    /\ Review = <<>>
    /\ assessing = NotAssessing

NextRisk ==
    \/ AssessContractRisk
    \/ RiskAnalysis
    \/ GetRiskAssessment
    \/ Respond

SpecRisk == InitRisk /\ [][NextRisk]_vars

----------------------------------------------------------------------------
(* Claims on contract risk, checked under SpecRisk *)

RiskOps == {"assess_contract_risk", "risk_analysis", "get_risk_assessment"}

\* the state holds a result of ContractRiskAssessment.assess_contract_risk
EstimatorRiskResult ==
    /\ ML_SERVICES_AVAILABLE
    /\ call.op \in RiskOps
    /\ result.outcome = "returned"

\* ... produced by the normal computation
ComputedRiskResult == EstimatorRiskResult /\ "risk_factors" \in DOMAIN result.value

InUnitInterval(q) == RLe(<<0, 1>>, q) /\ RLe(q, <<1, 1>>)

\* the weighted sum as the specification writes it, over a result's risk_factors
SpecWeightedSum(rf) ==
    RAdd(RAdd(RAdd(RMul(rf.farmer_reliability.v, <<25, 100>>),
                   RMul(rf.buyer_reliability.v, <<20, 100>>)),
              RAdd(RMul(rf.crop_volatility.v, <<15, 100>>),
                   RMul(rf.weather_risk.v, <<15, 100>>))),
         RAdd(RMul(rf.market_risk.v, <<15, 100>>),
              RMul(rf.quantity_risk.v, <<10, 100>>)))

SpecLevel(q) ==
    IF RLt(q, <<3, 10>>) THEN "low" ELSE IF RLt(q, <<6, 10>>) THEN "medium" ELSE "high"

\* C1: every risk factor of a result of assess_contract_risk, and its
\* overall_risk_score, lie in [0,1], whatever the contract.
C1_RiskScoresInUnitInterval ==
    EstimatorRiskResult =>
        /\ InUnitInterval(result.value.overall_risk_score.v)
        /\ ComputedRiskResult =>
               \A i \in 1..Len(RiskFactorNames) :
                   InUnitInterval(result.value.risk_factors[RiskFactorNames[i]].v)

C4_ScoreIsWeightedSum ==
    /\ weighted_sum([n \in DOMAIN weights |-> PyInt(1)], Len(RiskFactorNames)).v = <<1, 1>>
    /\ ComputedRiskResult =>
           result.value.overall_risk_score.v = SpecWeightedSum(result.value.risk_factors)

\* C4 as amended: overall_risk_score is the weighted sum of the six factors rounded
\* to 3 decimal places (a multiple of 0.001 at most 0.0005 away from the sum), with
\* the weights 0.25, 0.20, 0.15, 0.15, 0.15, 0.10, which sum to 1.
C4_ScoreIsRoundedWeightedSum ==
    /\ weighted_sum([n \in DOMAIN weights |-> PyInt(1)], Len(RiskFactorNames)).v = <<1, 1>>
    /\ ComputedRiskResult =>
           LET score == result.value.overall_risk_score.v
               sum == SpecWeightedSum(result.value.risk_factors)
           IN  /\ 1000 % score[2] = 0
               /\ RLe(RSub(score, sum), <<1, 2000>>)
               /\ RLe(RSub(sum, score), <<1, 2000>>)

\* C4, witness: a computed result whose weighted sum is not a multiple of 0.001
C4_Witness ==
    /\ ComputedRiskResult
    /\ result.value.overall_risk_score.v # SpecWeightedSum(result.value.risk_factors)

\* C6: assess_contract_risk never raises, and when a step of the computation fails
\* it returns overall_risk_score 0.5, risk_level medium and method error_fallback.
C6_RiskErrorFallback ==
    ML_SERVICES_AVAILABLE /\ call.op = "assess_contract_risk" =>
        /\ result.outcome = "returned"
        /\ "risk_factors" \notin DOMAIN result.value =>
               /\ result.value.overall_risk_score.v = <<1, 2>>
               /\ result.value.risk_level = "medium"
               /\ "method" \in DOMAIN result.value
               /\ result.value.method = "error_fallback"

\* the reliability risk of the specification: 0.5 without history, otherwise
\* 1 - (completed/total * 0.8 + 0.2)
SpecReliabilityRisk(h) ==
    IF h.total = 0 THEN <<1, 2>>
    ELSE RSub(<<1, 1>>, RAdd(RMul(Q(h.completed, h.total), <<8, 10>>), <<2, 10>>))

\* C9: in the result for a contract whose quantity is within the listing's (so that
\* the quantity factor is the flat 0.1), the farmer's and the buyer's reliability
\* risk are both 0.5 without history and 1 - (completed/total * 0.8 + 0.2) otherwise.
C9_ReliabilityRisk ==
    /\ ML_SERVICES_AVAILABLE
    /\ call.op = "assess_contract_risk"
    /\ call.contract.quantity_available.v # <<0, 1>>
    /\ RLe(call.contract.agreed_quantity.v, call.contract.quantity_available.v)
    => /\ result.outcome = "returned"
       /\ "risk_factors" \in DOMAIN result.value
       /\ result.value.risk_factors.farmer_reliability.v = SpecReliabilityRisk(call.contract.farmer)
       /\ result.value.risk_factors.buyer_reliability.v = SpecReliabilityRisk(call.contract.buyer)

\* the quantity risk of the specification
SpecQuantityRisk(agreed, available) ==
    IF available = <<0, 1>> THEN <<1, 1>>
    ELSE LET ratio == RDiv(agreed, available)
         IN  IF RLt(<<1, 1>>, ratio)
             THEN (IF RLt(RSub(ratio, <<1, 1>>), <<1, 1>>) THEN RSub(ratio, <<1, 1>>) ELSE <<1, 1>>)
             ELSE <<1, 10>>

\* C10: for a contract of a farmer without earlier contracts, the result reports as
\* risk_factors.quantity_risk: 1.0 when available_quantity = 0, otherwise
\* min(ratio - 1, 1.0) when ratio = agreed/available > 1 and 0.1 when ratio <= 1.
C10_QuantityRiskReported ==
    /\ ML_SERVICES_AVAILABLE
    /\ call.op = "assess_contract_risk"
    /\ call.contract.farmer.total = 0
    => /\ result.outcome = "returned"
       /\ "risk_factors" \in DOMAIN result.value
       /\ result.value.risk_factors.quantity_risk.v =
              SpecQuantityRisk(call.contract.agreed_quantity.v, call.contract.quantity_available.v)

\* C3: in every risk result a caller can receive - computed, error fallback, or the
\* answer given when the ML services are unavailable - risk_level is low, medium or high.
C3_RiskLevelLowMediumHigh ==
    call.op \in RiskOps /\ result.outcome = "returned" =>
        result.value.risk_level \in {"low", "medium", "high"}

\* C11: the crop_volatility factor of a computed result is the crop's
\* price_volatility_score whenever one is stored, a stored 0.0 included, and 0.5
\* only when none is stored.
C11_VolatilityIsStoredScore ==
    ComputedRiskResult =>
        result.value.risk_factors.crop_volatility.v =
            (IF call.contract.price_volatility_score = None THEN <<1, 2>>
             ELSE call.contract.price_volatility_score.v)

\* the recommendation list of the specification
SpecRecommendations(overall, rf) ==
    LET r1 == IF RLt(<<7, 10>>, overall)
              THEN <<"High risk contract - consider additional safeguards">> ELSE <<>>
        r2 == IF RLt(<<6, 10>>, rf.farmer_reliability.v)
              THEN <<"Farmer has limited track record - consider milestone payments">> ELSE <<>>
        r3 == IF RLt(<<5, 10>>, rf.quantity_risk.v)
              THEN <<"High quantity commitment - ensure adequate supply">> ELSE <<>>
    IN  IF r1 \o r2 \o r3 = <<>>
        THEN <<"Moderate risk contract - proceed with standard terms">>
        ELSE r1 \o r2 \o r3

\* C12: the recommendations of a computed result are, in this order, the high-risk
\* line when the overall risk is above 0.7, the track-record line when the farmer's
\* reliability risk is above 0.6 and the quantity line when the quantity risk is
\* above 0.5, or the single moderate-risk line when none applies; never empty.
C12_RecommendationList ==
    ComputedRiskResult =>
        /\ result.value.recommendations # <<>>
        /\ result.value.recommendations =
               SpecRecommendations(SpecWeightedSum(result.value.risk_factors),
                                   result.value.risk_factors)

\* C26: for a persisted contract - its farmer and its buyer each have at least the
\* contract itself - assess_contract_risk, as run at contract creation and by
\* risk_analysis, returns the computed result with the six risk_factors and the
\* recommendations, not the error fallback, however many contracts the parties have.
C26_PersistedContractIsComputed ==
    /\ ML_SERVICES_AVAILABLE
    /\ call.op \in {"assess_contract_risk", "risk_analysis"}
    /\ call.contract.farmer.total >= 1
    /\ call.contract.buyer.total >= 1
    => /\ result.outcome = "returned"
       /\ "risk_factors" \in DOMAIN result.value
       /\ \A i \in 1..Len(RiskFactorNames) :
              RiskFactorNames[i] \in DOMAIN result.value.risk_factors
       /\ "recommendations" \in DOMAIN result.value

----------------------------------------------------------------------------
(* Stored crops and market prices, and operations on prices *)

CropIds == {1, 2}

YieldValues == {None, PyDecimal(0, 1), PyDecimal(20, 1)}

PriceValues == {None, PyDecimal(0, 1), PyDecimal(200, 1)}

CropRows == [average_yield_per_acre : YieldValues, current_market_price : PriceValues]

MarketPriceValues == {PyDecimal(100, 1), PyDecimal(30125, 100)}

\* what the learned price pipeline can do with a request
PricePipelineOutcomes == {Raise("Exception"), PyFloat(123456, 1000), PyFloat(2000, 1)}

\* CropViewSet create / update (views.py:61-67), or the admin (admin.py:12-16)
SaveCrop ==
    /\ call = Idle
    /\ \E row \in CropRows : Crop' = <<row>>
    /\ last_price' = NoPrice
    /\ UNCHANGED <<ML_SERVICES_AVAILABLE, price_model, quality_model, MarketPrice, call, result, Contract, Review, assessing>>

\* CropViewSet destroy; MarketPrice.crop is on_delete=CASCADE
DeleteCrop ==
    /\ call = Idle
    /\ Crop # <<>>
    /\ Crop' = <<>>
    /\ MarketPrice' = <<>>
    /\ last_price' = NoPrice
    /\ UNCHANGED <<ML_SERVICES_AVAILABLE, price_model, quality_model, call, result, Contract, Review, assessing>>

\* a MarketPrice row of crop 1 dated today, added in the admin (admin.py:38)
AddMarketPrice ==
    /\ call = Idle
    /\ Crop # <<>>
    /\ Len(MarketPrice) < MaxPrices
    /\ \E price \in MarketPriceValues : MarketPrice' = Append(MarketPrice, price)
    /\ last_price' = NoPrice
    /\ UNCHANGED <<ML_SERVICES_AVAILABLE, price_model, quality_model, Crop, call, result, Contract, Review, assessing>>

\* the clock advances: the oldest recent row is now dated more than 30 days ago and
\* falls out of the window of line 109; the stored rows are unchanged
ExpireMarketPrice ==
    /\ call = Idle
    /\ MarketPrice # <<>>
    /\ MarketPrice' = Tail(MarketPrice)
    /\ UNCHANGED <<ML_SERVICES_AVAILABLE, price_model, quality_model, Crop, call, result, last_price, Contract, Review, assessing>>

\* a variant of predict_price that writes its prediction back to the Crop row
PredictPrice_writing ==
    /\ call = Idle
    /\ ML_SERVICES_AVAILABLE
    /\ \E crop_id \in CropIds, ml \in PricePipelineOutcomes :
        /\ call' = [op |-> "predict_price", crop_id |-> crop_id, ml |-> ml]
        /\ result' = Outcome(predict_price(crop_id, ml))
        /\ Crop' = IF crop_id = 1 /\ Crop # <<>>
                   THEN <<[Crop[1] EXCEPT !.current_market_price = PyDecimal(1, 1)]>>
                   ELSE Crop
    /\ UNCHANGED <<ML_SERVICES_AVAILABLE, price_model, quality_model, MarketPrice, last_price, Contract, Review, assessing>>

\* price_service.predict_price(crop_id, location, quantity, season); the call sites
\* run it only when the import succeeded (views.py:372-387, serializers.py:64-73)
PredictPrice ==
    /\ call = Idle
    /\ ML_SERVICES_AVAILABLE
    /\ \E crop_id \in CropIds, ml \in PricePipelineOutcomes :
        /\ call' = [op |-> "predict_price", crop_id |-> crop_id, ml |-> ml]
        /\ result' = Outcome(predict_price(crop_id, ml))
    /\ UNCHANGED <<ML_SERVICES_AVAILABLE, price_model, quality_model, Crop, MarketPrice, last_price, Contract, Review, assessing>>

InitPrice ==
    /\ ML_SERVICES_AVAILABLE \in BOOLEAN
    /\ price_model \in BOOLEAN
    /\ ~ML_SERVICES_AVAILABLE => ~price_model
    /\ quality_model = FALSE
    /\ Crop = <<>>
    /\ MarketPrice = <<>>
    /\ call = Idle
    /\ result = NoResult
    /\ last_price = NoPrice
    /\ Contract = <<>>
    /\ Review = <<>>
    /\ assessing = NotAssessing

\* the client takes the outcome of predict_price (views.py:387, or the 500 of
\* views.py:389-394) and keeps it to compare the next one with
KeepPriceResult ==
    /\ call # Idle
    /\ call.op = "predict_price"
    /\ last_price' = [kept |-> TRUE, crop_id |-> call.crop_id, ml |-> call.ml, result |-> result]
    /\ call' = Idle
    /\ result' = NoResult
    /\ UNCHANGED <<ML_SERVICES_AVAILABLE, price_model, quality_model, Crop, MarketPrice, Contract, Review, assessing>>

NextPrice ==
    \/ SaveCrop
    \/ DeleteCrop
    \/ AddMarketPrice
    \/ ExpireMarketPrice
    \/ PredictPrice
    \/ KeepPriceResult
    \/ Respond

SpecPrice == InitPrice /\ [][NextPrice]_vars

\* C5: predict_price never raises; for a crop_id that matches no crop it returns
\* predicted_price 100, confidence 0.1, price_range {min 80, max 120} and method
\* default_fallback.
C5_PriceDefaultFallback ==
    call.op = "predict_price" =>
        /\ result.outcome = "returned"
        /\ call.crop_id \notin DOMAIN Crop =>
               /\ result.value.predicted_price.v = <<100, 1>>
               /\ result.value.confidence.v = <<1, 10>>
               /\ result.value.price_range.min.v = <<80, 1>>
               /\ result.value.price_range.max.v = <<120, 1>>
               /\ "method" \in DOMAIN result.value
               /\ result.value.method = "default_fallback"

\* the state holds the outcome of predict_price, run without a learned model, for
\* a stored crop
FallbackPriceCall ==
    /\ call.op = "predict_price"
    /\ ~price_model
    /\ call.crop_id \in DOMAIN Crop

\* the arithmetic mean of the specification
SpecMean(prices) ==
    LET s[i \in 0..Len(prices)] == IF i = 0 THEN <<0, 1>> ELSE RAdd(s[i - 1], prices[i].v)
    IN  RDiv(s[Len(prices)], <<Len(prices), 1>>)

\* C13: for a crop with at least one market price of the last 30 days, the price
\* estimate is the mean of those prices rounded to 2 places, with confidence 0.6,
\* price_range {mean * 0.85, mean * 1.15} rounded to 2 places and method
\* historical_average.
C13_HistoricalAverage ==
    FallbackPriceCall /\ recent_prices(call.crop_id) # <<>> =>
        LET m == SpecMean(recent_prices(call.crop_id))
        IN  /\ result.outcome = "returned"
            /\ result.value.predicted_price.v = RRound(m, 2)
            /\ result.value.confidence.v = <<6, 10>>
            /\ result.value.price_range.min.v = RRound(RMul(m, <<85, 100>>), 2)
            /\ result.value.price_range.max.v = RRound(RMul(m, <<115, 100>>), 2)
            /\ "method" \in DOMAIN result.value
            /\ result.value.method = "historical_average"

\* the base price of the specification
SpecBasePrice(current_market_price) ==
    IF current_market_price # None /\ RLt(<<0, 1>>, current_market_price.v)
    THEN current_market_price.v
    ELSE <<100, 1>>

\* C14: for a crop without recent market prices, the price estimate is the base
\* (current_market_price when present and > 0, otherwise 100), with confidence 0.3,
\* price_range {base * 0.8, base * 1.2} and method base_price_estimation.
C14_BasePriceEstimation ==
    FallbackPriceCall /\ recent_prices(call.crop_id) = <<>> =>
        LET base == SpecBasePrice(Crop[call.crop_id].current_market_price)
        IN  /\ result.outcome = "returned"
            /\ result.value.predicted_price.v = base
            /\ result.value.confidence.v = <<3, 10>>
            /\ result.value.price_range.min.v = RMul(base, <<8, 10>>)
            /\ result.value.price_range.max.v = RMul(base, <<12, 10>>)
            /\ "method" \in DOMAIN result.value
            /\ result.value.method = "base_price_estimation"

\* C20: a call of predict_price for the crop of an earlier call (and with the same
\* outcome of the learned pipeline, if one is loaded), made while the stored crop
\* and price rows are those of the earlier call, has the outcome of the earlier
\* call - however much time has passed and whatever ran in between.
C20_RepeatedPriceCallsAgree ==
    [][(/\ last_price.kept
        /\ call = Idle
        /\ call'.op = "predict_price"
        /\ call'.crop_id = last_price.crop_id
        /\ call'.ml = last_price.ml)
       => result' = last_price.result]_vars

----------------------------------------------------------------------------
(* Operations on quality and yield *)

\* what the learned quality pipeline can do with an image
QualityPipelineOutcomes ==
    {Raise("Exception"),
     [ty |-> "prediction", quality |-> PyFloat(95, 100), ripeness |-> PyFloat(95, 100)],
     [ty |-> "prediction", quality |-> PyFloat(55, 100), ripeness |-> PyFloat(8, 10)]}

Images == [kind : {"stored", "uploaded"}, ml : QualityPipelineOutcomes]

ImageLists == UNION {[1..n -> Images] : n \in 0..MaxImages}

LandSizes == {PyFloat(-2, 1), PyFloat(0, 1), PyFloat(5, 2), PyFloat(5, 1)}

FarmingTypes == {"organic", "traditional", "hydroponic", "mixed", "aquaponic"}

\* quality_service.assess_quality(image_path), run only when the import succeeded
\* (views.py:404-416, serializers.py:92-94, serializers.py:255-257)
AssessQuality ==
    /\ call = Idle
    /\ ML_SERVICES_AVAILABLE
    /\ \E ml \in QualityPipelineOutcomes :
        /\ call' = [op |-> "assess_quality", ml |-> ml]
        /\ result' = Returned(assess_quality(ml))
    /\ UNCHANGED <<ML_SERVICES_AVAILABLE, price_model, quality_model, Crop, MarketPrice, last_price, Contract, Review, assessing>>

\* yield_service.predict_yield(crop_id, land_size, farming_type, location, images),
\* run only when the import succeeded, with land_size a float
\* (views.py:428-444, serializers.py:131-153)
PredictYield ==
    /\ call = Idle
    /\ ML_SERVICES_AVAILABLE
    /\ \E crop_id \in CropIds, land_size \in LandSizes,
          farming_type \in FarmingTypes, images \in ImageLists :
        /\ call' = [op |-> "predict_yield", crop_id |-> crop_id, land_size |-> land_size,
                    farming_type |-> farming_type, images |-> images]
        /\ result' = Returned(predict_yield(crop_id, land_size, farming_type, images))
    /\ UNCHANGED <<ML_SERVICES_AVAILABLE, price_model, quality_model, Crop, MarketPrice, last_price, Contract, Review, assessing>>

InitYield ==
    /\ ML_SERVICES_AVAILABLE \in BOOLEAN
    /\ price_model = FALSE
    /\ quality_model \in BOOLEAN
    /\ ~ML_SERVICES_AVAILABLE => ~quality_model
    /\ Crop = <<>>
    /\ MarketPrice = <<>>
    /\ call = Idle
    /\ result = NoResult
    /\ last_price = NoPrice
    /\ Contract = <<>>
    /\ Review = <<>>
    /\ assessing = NotAssessing

NextYield ==
    \/ SaveCrop
    \/ DeleteCrop
    \/ AssessQuality
    \/ PredictYield
    \/ Respond

SpecYield == InitYield /\ [][NextYield]_vars

\* C7: predict_yield never raises; when the crop is missing or a step of the
\* computation fails (the result is not the computed one, which carries factors) it
\* returns predicted_yield 0, confidence 0 and method error_fallback.
C7_YieldErrorFallback ==
    call.op = "predict_yield" =>
        /\ result.outcome = "returned"
        /\ call.crop_id \notin DOMAIN Crop => "factors" \notin DOMAIN result.value
        /\ "factors" \notin DOMAIN result.value =>
               /\ result.value.predicted_yield.v = <<0, 1>>
               /\ result.value.confidence.v = <<0, 1>>
               /\ "method" \in DOMAIN result.value
               /\ result.value.method = "error_fallback"

\* the baseline yield of the specification
SpecBaseYield(average_yield_per_acre) ==
    IF average_yield_per_acre # None /\ RLt(<<0, 1>>, average_yield_per_acre.v)
    THEN average_yield_per_acre.v
    ELSE <<10, 1>>

\* the multiplier table of the specification
SpecMultiplier(farming_type) ==
    CASE farming_type = "organic" -> <<8, 10>>
      [] farming_type = "traditional" -> <<1, 1>>
      [] farming_type = "hydroponic" -> <<15, 10>>
      [] farming_type = "mixed" -> <<11, 10>>
      [] OTHER -> <<1, 1>>

\* C15: for a stored crop with baseline yield b, land_size L > 0 and farming type t,
\* whatever the images, predicted_yield = b * L * m(t) and yield_per_acre =
\* predicted_yield / L; for L <= 0, yield_per_acre is 0.
C15_YieldFormula ==
    call.op = "predict_yield" /\ call.crop_id \in DOMAIN Crop =>
        LET L == call.land_size.v
            predicted == RMul(RMul(SpecBaseYield(Crop[call.crop_id].average_yield_per_acre), L),
                              SpecMultiplier(call.farming_type))
        IN  /\ result.outcome = "returned"
            /\ "yield_per_acre" \in DOMAIN result.value
            /\ RLt(<<0, 1>>, L) =>
                   /\ result.value.predicted_yield.v = predicted
                   /\ result.value.yield_per_acre.v = RDiv(predicted, L)
            /\ ~RLt(<<0, 1>>, L) => result.value.yield_per_acre.v = <<0, 1>>

\* C16: whatever the image, assess_quality returns quality_score 0.75, ripeness_score
\* 0.75, the grade of 0.75 (B+), health_indicators {0.7, 0.7, 0.3}, the two
\* recommendations 'Manual assessment recommended.' and 'Upload clear images for
\* better analysis.', and method default_assessment.
C16_FixedAssessment ==
    call.op = "assess_quality" =>
        /\ result.outcome = "returned"
        /\ result.value.quality_score.v = <<3, 4>>
        /\ result.value.ripeness_score.v = <<3, 4>>
        /\ result.value.quality_grade = "B+"
        /\ result.value.health_indicators.color_uniformity.v = <<7, 10>>
        /\ result.value.health_indicators.size_consistency.v = <<7, 10>>
        /\ result.value.health_indicators.defect_level.v = <<3, 10>>
        /\ result.value.recommendations =
               <<"Manual assessment recommended.", "Upload clear images for better analysis.">>
        /\ "method" \in DOMAIN result.value
        /\ result.value.method = "default_assessment"

----------------------------------------------------------------------------
(* Grading of uploaded crop images *)

\* the quality scores a learned model gives an image: the hundredths of [0,1] and
\* 0.8999 (a single-output model: ripeness is the quality score, line 191)
QualityScores == {PyFloat(k, 100) : k \in 0..100} \cup {PyFloat(8999, 10000)}

GradedOutcomes ==
    {Raise("Exception")} \cup
    {[ty |-> "prediction", quality |-> q, ripeness |-> q] : q \in QualityScores}

\* CropImageSerializer.create (serializers.py:88-108): the image row is saved with
\* the assessment of its file, or with the defaults when the import failed
CreateCropImage ==
    /\ call = Idle
    /\ \E ml \in GradedOutcomes :
        /\ call' = [op |-> "create_crop_image", ml |-> ml]
        /\ result' = Returned(
               IF ML_SERVICES_AVAILABLE
               THEN LET quality_assessment == assess_quality(ml)
                    IN  [ai_quality_assessment |-> quality_assessment,
                         health_score |-> quality_assessment.quality_score,
                         ripeness_score |-> quality_assessment.ripeness_score]
               ELSE [ai_quality_assessment |-> [note |-> "ML analysis unavailable"],
                     health_score |-> PyFloat(7, 10),
                     ripeness_score |-> PyFloat(7, 10)])
    /\ UNCHANGED <<ML_SERVICES_AVAILABLE, price_model, quality_model, Crop, MarketPrice, last_price, Contract, Review, assessing>>

InitQuality ==
    /\ ML_SERVICES_AVAILABLE \in BOOLEAN
    /\ price_model = FALSE
    /\ quality_model \in BOOLEAN
    /\ ~ML_SERVICES_AVAILABLE => ~quality_model
    /\ Crop = <<>>
    /\ MarketPrice = <<>>
    /\ call = Idle
    /\ result = NoResult
    /\ last_price = NoPrice
    /\ Contract = <<>>
    /\ Review = <<>>
    /\ assessing = NotAssessing

NextQuality ==
    \/ CreateCropImage
    \/ Respond

SpecQuality == InitQuality /\ [][NextQuality]_vars

\* the state holds an image row graded by the learned model
GradedImage ==
    /\ call.op = "create_crop_image"
    /\ ML_SERVICES_AVAILABLE
    /\ quality_model
    /\ ~IsRaise(call.ml)

GradeRank(grade) ==
    CASE grade = "C" -> 0 [] grade = "B" -> 1 [] grade = "B+" -> 2
      [] grade = "A" -> 3 [] grade = "A+" -> 4

\* the grade of the specification: the highest grade whose lower bound the score reaches
SpecGrade(q) ==
    LET reached == {g \in {<<"A+", <<9, 10>>>>, <<"A", <<8, 10>>>>, <<"B+", <<7, 10>>>>,
                           <<"B", <<6, 10>>>>, <<"C", q>>} : RLe(g[2], q)}
    IN  (CHOOSE g \in reached : \A h \in reached : GradeRank(h[1]) <= GradeRank(g[1]))[1]

\* C17: the grade of a score is A+ from 0.9, A from 0.8, B+ from 0.7, B from 0.6 and
\* C below, each boundary value belonging to the higher grade, and no lower score
\* gets a higher grade.
C17_GradeStepFunction ==
    GradedImage =>
        LET q == call.ml.quality
            grade == result.value.ai_quality_assessment.quality_grade
        IN  /\ grade = SpecGrade(q.v)
            /\ \A s \in QualityScores :
                   RLe(s.v, q.v) => GradeRank(score_to_grade(s)) <= GradeRank(grade)

\* C17, witness: an image scored exactly 0.8 is graded A
C17_Witness ==
    /\ GradedImage
    /\ call.ml.quality.v = <<4, 5>>
    /\ result.value.ai_quality_assessment.quality_grade = "A"

\* the grade an image row got, when its score is q
GradeAt(q, grade) ==
    GradedImage /\ call.ml.quality.v = q =>
        result.value.ai_quality_assessment.quality_grade = grade

\* C18 as stated: 0.9 is graded A+, 0.8999 B+, 0.8 A, 0.7 B+, 0.6 B and 0.59 C.
C18_BoundaryGradesAsStated ==
    /\ GradeAt(<<9, 10>>, "A+")
    /\ GradeAt(<<8999, 10000>>, "B+")
    /\ GradeAt(<<8, 10>>, "A")
    /\ GradeAt(<<7, 10>>, "B+")
    /\ GradeAt(<<6, 10>>, "B")
    /\ GradeAt(<<59, 100>>, "C")

\* C18 as amended: 0.9 is graded A+, 0.8999 A (it is below 0.9 and at least 0.8),
\* 0.8 A, 0.7 B+, 0.6 B and 0.59 C.
C18_BoundaryGrades ==
    /\ GradeAt(<<9, 10>>, "A+")
    /\ GradeAt(<<8999, 10000>>, "A")
    /\ GradeAt(<<8, 10>>, "A")
    /\ GradeAt(<<7, 10>>, "B+")
    /\ GradeAt(<<6, 10>>, "B")
    /\ GradeAt(<<59, 100>>, "C")

\* C18, witness: an image scored 0.8999 is graded A
C18_Witness ==
    /\ GradedImage
    /\ call.ml.quality.v = <<8999, 10000>>
    /\ result.value.ai_quality_assessment.quality_grade = "A"

----------------------------------------------------------------------------
(* The four estimators over the stored crops and prices.  RiskAnalysis and  *)
(* GetRiskAssessment, which hand the risk estimator's result to a client,   *)
(* are part of SpecRisk.                                                    *)

Init ==
    /\ ML_SERVICES_AVAILABLE \in BOOLEAN
    /\ price_model \in BOOLEAN
    /\ quality_model \in BOOLEAN
    /\ ~ML_SERVICES_AVAILABLE => ~price_model /\ ~quality_model
    /\ Crop = <<>>
    /\ MarketPrice = <<>>
    /\ call = Idle
    /\ result = NoResult
    /\ last_price = NoPrice
    /\ Contract = <<>>
    /\ Review = <<>>
    /\ assessing = NotAssessing

Next ==
    \/ SaveCrop
    \/ DeleteCrop
    \/ AddMarketPrice
    \/ ExpireMarketPrice
    \/ PredictPrice
    \/ AssessQuality
    \/ PredictYield
    \/ AssessContractRisk
    \/ Respond

Spec == Init /\ [][Next]_vars

MethodTags ==
    {"historical_average", "base_price_estimation", "default_fallback", "default_assessment",
     "simplified_calculation", "error_fallback", "simplified_assessment"}

EstimatorOps == {"predict_price", "assess_quality", "predict_yield", "assess_contract_risk"}

\* C8: every result an estimator returns, computed or fallback, carries a method
\* field holding one of the seven method tags.
C8_ResultCarriesMethod ==
    call.op \in EstimatorOps /\ result.outcome = "returned" =>
        /\ "method" \in DOMAIN result.value
        /\ result.value.method \in MethodTags

NonNegative(x) == RLe(<<0, 1>>, x.v)

\* C19: the price and yield estimates of a returned result - predicted_price,
\* price_range.min, price_range.max, predicted_yield and yield_per_acre - are >= 0
\* for every request the serializers accept.
C19_EstimatesNonNegative ==
    /\ call.op = "predict_price" /\ result.outcome = "returned" =>
           /\ NonNegative(result.value.predicted_price)
           /\ NonNegative(result.value.price_range.min)
           /\ NonNegative(result.value.price_range.max)
    /\ call.op = "predict_yield" /\ result.outcome = "returned" =>
           /\ NonNegative(result.value.predicted_yield)
           /\ "yield_per_acre" \in DOMAIN result.value =>
                  NonNegative(result.value.yield_per_acre)

----------------------------------------------------------------------------
(* The ML endpoints of views.py: what a client of the HTTP interface gets    *)

Response(data, status) == [status |-> status, data |-> data]

\* views.predict_price (views.py:366-395)
PredictPriceView ==
    /\ call = Idle
    /\ \E valid \in BOOLEAN, crop_id \in CropIds, ml \in PricePipelineOutcomes :
        /\ call' = [op |-> "predict_price_view", valid |-> valid, crop_id |-> crop_id, ml |-> ml]
        /\ result' = Returned(
               IF ~ML_SERVICES_AVAILABLE
               THEN Response([error |-> "ML services not available",
                              predicted_price |-> PyInt(100),
                              method |-> "unavailable"], 503)
               ELSE IF ~valid THEN Response([errors |-> "serializer.errors"], 400)
               ELSE LET prediction == predict_price(crop_id, ml)
                    IN  IF Outcome(prediction).outcome = "raised"
                        THEN Response([error |-> prediction.exc,
                                       predicted_price |-> PyInt(100),
                                       method |-> "error_fallback"], 500)
                        ELSE Response(prediction, 200))
    /\ UNCHANGED <<ML_SERVICES_AVAILABLE, price_model, quality_model, Crop, MarketPrice, last_price, Contract, Review, assessing>>

\* views.assess_quality (views.py:398-419): the service is handed None for a path, so
\* with a model loaded Image.open(None) raises inside its try
AssessQualityView ==
    /\ call = Idle
    /\ \E has_image \in BOOLEAN :
        /\ call' = [op |-> "assess_quality_view", has_image |-> has_image]
        /\ result' = Returned(
               IF ~ML_SERVICES_AVAILABLE
               THEN Response([error |-> "ML services not available",
                              quality_score |-> PyFloat(7, 10),
                              method |-> "unavailable"], 503)
               ELSE IF ~has_image THEN Response([error |-> "Image file required"], 400)
               ELSE Response(assess_quality(Raise("AttributeError")), 200))
    /\ UNCHANGED <<ML_SERVICES_AVAILABLE, price_model, quality_model, Crop, MarketPrice, last_price, Contract, Review, assessing>>

\* views.predict_yield (views.py:422-452): uploaded images, land_size as a float
PredictYieldView ==
    /\ call = Idle
    /\ \E valid \in BOOLEAN, crop_id \in CropIds, land_size \in LandSizes,
          farming_type \in FarmingTypes,
          images \in {il \in ImageLists : \A i \in DOMAIN il : il[i].kind = "uploaded"} :
        /\ call' = [op |-> "predict_yield_view", valid |-> valid, crop_id |-> crop_id,
                    land_size |-> land_size, farming_type |-> farming_type, images |-> images]
        /\ result' = Returned(
               IF ~ML_SERVICES_AVAILABLE
               THEN Response([error |-> "ML services not available",
                              predicted_yield |-> PyInt(10),
                              method |-> "unavailable"], 503)
               ELSE IF ~valid THEN Response([errors |-> "serializer.errors"], 400)
               ELSE Response(predict_yield(crop_id, land_size, farming_type, images), 200))
    /\ UNCHANGED <<ML_SERVICES_AVAILABLE, price_model, quality_model, Crop, MarketPrice, last_price, Contract, Review, assessing>>

NextViews ==
    \/ SaveCrop
    \/ DeleteCrop
    \/ PredictPriceView
    \/ AssessQualityView
    \/ PredictYieldView
    \/ RiskAnalysis
    \/ Respond

SpecViews == Init /\ [][NextViews]_vars

\* the fields of the normal result of each endpoint
NormalFields(op) ==
    CASE op = "predict_price_view" -> {"predicted_price", "confidence", "price_range"}
      [] op = "assess_quality_view" -> {"quality_score", "ripeness_score", "quality_grade",
                                        "health_indicators", "recommendations"}
      [] op = "predict_yield_view" -> {"predicted_yield", "yield_per_acre", "confidence", "factors"}
      [] op = "risk_analysis" -> {"overall_risk_score", "risk_level", "risk_factors",
                                  "recommendations"}

\* C21: with the ML services unavailable, each of the four endpoints answers without
\* an error status, with method = unavailable and with the fields of its normal result.
C21_UnavailableResponses ==
    /\ ~ML_SERVICES_AVAILABLE
    /\ call.op \in {"predict_price_view", "assess_quality_view", "predict_yield_view",
                    "risk_analysis"}
    => LET status == IF call.op = "risk_analysis" THEN 200 ELSE result.value.status
           data == IF call.op = "risk_analysis" THEN result.value ELSE result.value.data
       IN  /\ status < 400
           /\ "error" \notin DOMAIN data
           /\ "method" \in DOMAIN data
           /\ data.method = "unavailable"
           /\ NormalFields(call.op) \subseteq DOMAIN data

----------------------------------------------------------------------------
(* Contracts and reviews: ContractViewSet and ReviewViewSet (views.py:201-311) *)
(*                                                                          *)
(* The users and the one crop listing are fixed rows.  A Contract row keeps  *)
(* the fields the handlers read or write.  The ContractProgress row that     *)
(* update_progress inserts is not kept: no handler modelled here reads it.   *)

Users == {"alice", "erin", "bob", "carol"}

\* User.user_type (user/models.py:15): farmer, buyer, or unset
user_type(user) ==
    CASE user \in {"alice", "erin"} -> "farmer"
      [] user = "bob" -> "buyer"
      [] OTHER -> "unset"

is_farmer(user) == user_type(user) = "farmer"

is_buyer(user) == user_type(user) = "buyer"

\* the CropListing table: one listing of the farmer alice, of a crop without volatility score
CropListing ==
    <<[farmer |-> "alice", quantity_available |-> PyDecimal(100, 1),
       price_volatility_score |-> None]>>

ContractIds == 1..MaxContracts

ContractStatuses == {"pending", "completed"}

ProgressPercentages == {0, 50, 100, 150}

\* farmer.farmer_contracts / buyer.buyer_contracts over a table T
party_contracts(T, party, user) == {i \in DOMAIN T : T[i][party] = user}

completed_contracts(T, party, user) ==
    Cardinality({i \in party_contracts(T, party, user) : T[i].status = "completed"})

total_contracts(T, party, user) == Cardinality(party_contracts(T, party, user))

\* the four counts assess_contract_risk reads for a contract, all from the table T
Counts(T, contract) ==
    <<completed_contracts(T, "farmer", contract.farmer), total_contracts(T, "farmer", contract.farmer),
      completed_contracts(T, "buyer", contract.buyer), total_contracts(T, "buyer", contract.buyer)>>

\* what assess_contract_risk computes for a Contract row from the counts it has read
assess_with_counts(contract, counts) ==
    assess_contract_risk(
        [farmer |-> [completed |-> counts[1], total |-> counts[2]],
         buyer |-> [completed |-> counts[3], total |-> counts[4]],
         price_volatility_score |-> CropListing[contract.listing].price_volatility_score,
         agreed_quantity |-> contract.agreed_quantity,
         quantity_available |-> CropListing[contract.listing].quantity_available])

\* the tables a running assessment has seen: it records the counts of each one
Observe(T) ==
    IF assessing.pc = "idle" THEN assessing
    ELSE [assessing EXCEPT !.seen = @ \cup {Counts(T, assessing.contract)}]

\* ContractViewSet.get_queryset (views.py:209-224), without the status filter
get_queryset(user) ==
    IF is_farmer(user) THEN party_contracts(Contract, "farmer", user)
    ELSE IF is_buyer(user) THEN party_contracts(Contract, "buyer", user)
    ELSE DOMAIN Contract

\* request values of the DecimalFields agreed_quantity and agreed_price_per_quintal
\* (models.py:181-182): at most two decimal places
ContractQuantities == {PyDecimal(101, 100)}

ContractPrices == {PyDecimal(101, 100)}

\* the row the database keeps of a Contract instance: total_contract_value is a
\* DecimalField with decimal_places=2 (models.py:183), the value is stored to two places
db_row(contract) == [contract EXCEPT !.total_contract_value = Round(@, 2)]

\* ContractViewSet.create: perform_create (views.py:226-233) and
\* ContractSerializer.create (serializers.py:219-239).  status is a writable field.
CreateContract ==
    /\ call = Idle
    /\ Cardinality(DOMAIN Contract) < MaxContracts
    /\ \E user \in Users, status \in ContractStatuses,
          agreed_quantity \in ContractQuantities,
          agreed_price_per_quintal \in ContractPrices :
        LET pk == CHOOSE i \in ContractIds : i \notin DOMAIN Contract /\
                      \A j \in ContractIds : j < i => j \in DOMAIN Contract
            listing == 1
            contract == [listing |-> listing,
                         buyer |-> user,
                         farmer |-> CropListing[listing].farmer,
                         agreed_quantity |-> agreed_quantity,
                         agreed_price_per_quintal |-> agreed_price_per_quintal,
                         total_contract_value |-> Mul(agreed_quantity, agreed_price_per_quintal),
                         status |-> status,
                         completion_percentage |-> 0,
                         actual_delivery_date |-> "null",
                         ai_risk_score |-> None]
            inserted == [i \in DOMAIN Contract \cup {pk} |->
                            IF i = pk THEN db_row(contract) ELSE Contract[i]]
            risk_assessment == assess_with_counts(contract, Counts(inserted, contract))
            saved == IF ML_SERVICES_AVAILABLE
                     THEN [inserted EXCEPT ![pk].ai_risk_score = risk_assessment.overall_risk_score]
                     ELSE inserted
        IN  /\ call' = [op |-> "create_contract", user |-> user, pk |-> pk]
            /\ IF ~is_buyer(user)
               THEN /\ result' = Raised(Raise("PermissionError"))
                    /\ UNCHANGED <<Contract, assessing>>
               ELSE /\ result' = Returned(Response(saved[pk], 201))
                    /\ Contract' = saved
                    /\ assessing' = Observe(saved)
    /\ UNCHANGED <<ML_SERVICES_AVAILABLE, price_model, quality_model, Crop, MarketPrice,
                   last_price, Review>>

\* ContractViewSet.update_progress (views.py:235-254) and
\* ContractProgressSerializer.create (serializers.py:284-293)
UpdateProgress ==
    /\ call = Idle
    /\ \E user \in Users, pk \in ContractIds, progress_percentage \in ProgressPercentages :
        /\ call' = [op |-> "update_progress", user |-> user, pk |-> pk,
                    progress_percentage |-> progress_percentage]
        /\ IF pk \notin get_queryset(user)
           THEN /\ result' = Returned(Response([detail |-> "Not found."], 404))
                /\ UNCHANGED Contract
           ELSE IF user \notin {Contract[pk].farmer, Contract[pk].buyer}
           THEN /\ result' = Returned(Response([error |-> "Permission denied"], 403))
                /\ UNCHANGED Contract
           ELSE IF progress_percentage < 0 \/ progress_percentage > 100
           THEN /\ result' = Returned(Response([errors |-> "serializer.errors"], 400))
                /\ UNCHANGED Contract
           ELSE /\ result' = Returned(Response([contract |-> pk,
                                                progress_percentage |-> progress_percentage], 201))
                /\ Contract' = [Contract EXCEPT ![pk].completion_percentage = progress_percentage]
    /\ UNCHANGED <<ML_SERVICES_AVAILABLE, price_model, quality_model, Crop, MarketPrice,
                   last_price, Review, assessing>>

\* a variant of the farmer check that lets either party complete
may_complete_party(user, contract) == user \in {contract.farmer, contract.buyer}

\* the check of complete_contract (views.py:262): request.user != contract.farmer is refused
may_complete(user, contract) == user = contract.farmer

\* ContractViewSet.complete_contract (views.py:256-271)
CompleteContract ==
    /\ call = Idle
    /\ \E user \in Users, pk \in ContractIds :
        /\ call' = [op |-> "complete_contract", user |-> user, pk |-> pk]
        /\ IF pk \notin get_queryset(user)
           THEN /\ result' = Returned(Response([detail |-> "Not found."], 404))
                /\ UNCHANGED <<Contract, assessing>>
           ELSE IF ~may_complete(user, Contract[pk])
           THEN /\ result' = Returned(Response(
                                 [error |-> "Only farmer can mark contract as completed"], 403))
                /\ UNCHANGED <<Contract, assessing>>
           ELSE LET saved == [Contract EXCEPT ![pk].status = "completed",
                                              ![pk].completion_percentage = 100,
                                              ![pk].actual_delivery_date = "today"]
                IN  /\ result' = Returned(Response(
                                     [message |-> "Contract marked as completed"], 200))
                    /\ Contract' = saved
                    /\ assessing' = Observe(saved)
    /\ UNCHANGED <<ML_SERVICES_AVAILABLE, price_model, quality_model, Crop, MarketPrice,
                   last_price, Review>>

\* ContractViewSet.destroy (ModelViewSet, views.py:201-207): deletes the contract
\* found by get_object; Review.contract is on_delete=CASCADE (models.py:265)
DeleteContract ==
    /\ call = Idle
    /\ \E user \in Users, pk \in ContractIds :
        /\ call' = [op |-> "destroy_contract", user |-> user, pk |-> pk]
        /\ IF pk \notin get_queryset(user)
           THEN /\ result' = Returned(Response([detail |-> "Not found."], 404))
                /\ UNCHANGED <<Contract, Review, assessing>>
           ELSE LET remaining == [i \in DOMAIN Contract \ {pk} |-> Contract[i]]
                IN  /\ result' = Returned(Response([deleted |-> pk], 204))
                    /\ Contract' = remaining
                    /\ Review' = [i \in DOMAIN Review \ {pk} |-> Review[i]]
                    /\ assessing' = Observe(remaining)
    /\ UNCHANGED <<ML_SERVICES_AVAILABLE, price_model, quality_model, Crop, MarketPrice,
                   last_price>>

\* ContractViewSet.list (ModelViewSet over get_queryset, views.py:209-224)
ListContracts ==
    /\ call = Idle
    /\ \E user \in Users :
        /\ call' = [op |-> "list_contracts", user |-> user]
        /\ result' = Returned(Response(get_queryset(user), 200))
    /\ UNCHANGED <<ML_SERVICES_AVAILABLE, price_model, quality_model, Crop, MarketPrice,
                   last_price, Contract, Review, assessing>>

\* ReviewViewSet.create (views.py:290-311) and ReviewSerializer.create
\* (serializers.py:316-333); Review.contract is a OneToOneField (models.py:265)
CreateReview ==
    /\ call = Idle
    /\ \E user \in Users, pk \in ContractIds :
        /\ call' = [op |-> "create_review", user |-> user, pk |-> pk]
        /\ IF pk \notin DOMAIN Contract \/ pk \in DOMAIN Review
           THEN /\ result' = Returned(Response([errors |-> "serializer.errors"], 400))
                /\ UNCHANGED Review
           ELSE LET contract == Contract[pk]
                    review == [reviewer |-> user,
                               reviewee |-> IF user = contract.farmer THEN contract.buyer
                                            ELSE contract.farmer,
                               sentiment_score |-> PyFloat(0, 1)]
                IN  /\ result' = Returned(Response(review, 201))
                    /\ Review' = [i \in DOMAIN Review \cup {pk} |->
                                     IF i = pk THEN review ELSE Review[i]]
    /\ UNCHANGED <<ML_SERVICES_AVAILABLE, price_model, quality_model, Crop, MarketPrice,
                   last_price, Contract, assessing>>

InitContracts ==
    /\ ML_SERVICES_AVAILABLE \in BOOLEAN
    /\ price_model = FALSE
    /\ quality_model = FALSE
    /\ Crop = <<>>
    /\ MarketPrice = <<>>
    /\ call = Idle
    /\ result = NoResult
    /\ last_price = NoPrice
    /\ Contract = <<>>
    /\ Review = <<>>
    /\ assessing = NotAssessing

NextContracts ==
    \/ CreateContract
    \/ UpdateProgress
    \/ CompleteContract
    \/ ListContracts
    \/ Respond

SpecContracts == InitContracts /\ [][NextContracts]_vars

\* C24: every contract whose status is completed has completion_percentage = 100
C24_CompletedIsFullyDone ==
    \A pk \in DOMAIN Contract :
        Contract[pk].status = "completed" => Contract[pk].completion_percentage = 100

\* C27: the contracts the list returns to a user all have that user as farmer or buyer
C27_OnlyOwnContracts ==
    call.op = "list_contracts"
    => \A pk \in result.value.data : call.user \in {Contract[pk].farmer, Contract[pk].buyer}

\* C28: a create request by a non-buyer stores nothing, and every stored contract has
\* the creating buyer, the listing's farmer and total = quantity x price
C28_StoredContractAsCreated ==
    /\ call.op = "create_contract" /\ ~is_buyer(call.user) => call.pk \notin DOMAIN Contract
    /\ \A pk \in DOMAIN Contract :
        /\ is_buyer(Contract[pk].buyer)
        /\ Contract[pk].farmer = CropListing[Contract[pk].listing].farmer
        /\ Contract[pk].total_contract_value =
               Mul(Contract[pk].agreed_quantity, Contract[pk].agreed_price_per_quintal)

\* the fields complete_contract writes
CompletionFields(contract) ==
    <<contract.status, contract.completion_percentage, contract.actual_delivery_date>>

\* C25 as stated: a complete_contract request for a stored contract by anyone but its
\* farmer is answered 403
C25_OthersGet403 ==
    [][(call = Idle /\ call'.op = "complete_contract" /\ call'.pk \in DOMAIN Contract
        /\ call'.user # Contract[call'.pk].farmer)
       => result'.value.status = 403]_vars

\* C25: complete_contract succeeds only for the contract's farmer; a request by any
\* other user is refused with 403, or with 404 when the contract is not among those the
\* requester can see, and leaves the contract unchanged; on success the contract is
\* completed, at 100 percent, with its delivery date set
C25_OnlyFarmerCompletes ==
    [][(call = Idle /\ call'.op = "complete_contract" /\ call'.pk \in DOMAIN Contract)
       => IF call'.user = Contract[call'.pk].farmer
          THEN /\ result'.value.status = 200
               /\ CompletionFields(Contract'[call'.pk]) = <<"completed", 100, "today">>
          ELSE /\ result'.value.status \in {403, 404}
               /\ result'.value.status = 404 <=> call'.pk \notin get_queryset(call'.user)
               /\ Contract' = Contract]_vars

\* a farmer who is not a party asked to complete a stored, uncompleted contract
C25_Witness ==
    /\ call.op = "complete_contract"
    /\ call.pk \in DOMAIN Contract
    /\ call.user = "erin"
    /\ Contract[call.pk].status = "pending"
    /\ result.value.status = 404

NextReview ==
    \/ CreateContract
    \/ DeleteContract
    \/ CreateReview
    \/ Respond

SpecReview == InitContracts /\ [][NextReview]_vars

\* C29: the reviewer and the reviewee of every review are the two distinct parties of
\* the reviewed contract
C29_ReviewBetweenParties ==
    \A pk \in DOMAIN Review :
        /\ Review[pk].reviewer # Review[pk].reviewee
        /\ {Review[pk].reviewer, Review[pk].reviewee} = {Contract[pk].farmer, Contract[pk].buyer}

----------------------------------------------------------------------------
(* assess_contract_risk in one request thread while other requests write        *)
(*                                                                          *)
(* risk_analysis (views.py:273-287) fetches the contract and calls              *)
(* assess_contract_risk, which issues one COUNT query after the other           *)
(* (ml_services.py:385-386, 406-407) with no transaction around them.  Each     *)
(* query is one step; the requests of the other threads run between the steps.  *)

UnchangedByAssessment ==
    UNCHANGED <<ML_SERVICES_AVAILABLE, price_model, quality_model, Crop, MarketPrice,
                call, result, last_price, Contract, Review>>

\* risk_analysis up to the call of risk_service.assess_contract_risk(contract)
BeginAssessment ==
    /\ assessing.pc = "idle"
    /\ ML_SERVICES_AVAILABLE
    /\ \E user \in Users :
        \E pk \in get_queryset(user) :
            assessing' = [pc |-> "farmer_completed",
                          contract |-> Contract[pk],
                          reads |-> <<>>,
                          seen |-> {Counts(Contract, Contract[pk])},
                          result |-> NoResult]
    /\ UnchangedByAssessment

\* what assess_contract_risk returns from the counts it has read; the buyer's counts
\* are not read when _assess_farmer_reliability has raised
assessment_result(contract, reads) ==
    Returned(assess_with_counts(contract,
                                IF Len(reads) = 4 THEN reads ELSE reads \o <<0, 0>>))

\* farmer.farmer_contracts.filter(status='completed').count() (ml_services.py:385)
ReadFarmerCompleted ==
    /\ assessing.pc = "farmer_completed"
    /\ assessing' = [assessing EXCEPT
           !.reads = Append(@, completed_contracts(Contract, "farmer", assessing.contract.farmer)),
           !.pc = "farmer_total"]
    /\ UnchangedByAssessment

\* farmer.farmer_contracts.count() (ml_services.py:386) and the rest of
\* _assess_farmer_reliability: 0.5 for no contracts, otherwise the NameError at models.Avg
ReadFarmerTotal ==
    /\ assessing.pc = "farmer_total"
    /\ LET total == total_contracts(Contract, "farmer", assessing.contract.farmer)
           reads == Append(assessing.reads, total)
       IN  assessing' = IF total = 0
                        THEN [assessing EXCEPT !.reads = reads, !.pc = "buyer_completed"]
                        ELSE [assessing EXCEPT !.reads = reads, !.pc = "done",
                                 !.result = assessment_result(assessing.contract, reads)]
    /\ UnchangedByAssessment

\* buyer.buyer_contracts.filter(status='completed').count() (ml_services.py:406)
ReadBuyerCompleted ==
    /\ assessing.pc = "buyer_completed"
    /\ assessing' = [assessing EXCEPT
           !.reads = Append(@, completed_contracts(Contract, "buyer", assessing.contract.buyer)),
           !.pc = "buyer_total"]
    /\ UnchangedByAssessment

\* buyer.buyer_contracts.count() (ml_services.py:407) and the rest of assess_contract_risk
ReadBuyerTotal ==
    /\ assessing.pc = "buyer_total"
    /\ LET reads == Append(assessing.reads,
                           total_contracts(Contract, "buyer", assessing.contract.buyer))
       IN  assessing' = [assessing EXCEPT !.reads = reads, !.pc = "done",
                            !.result = assessment_result(assessing.contract, reads)]
    /\ UnchangedByAssessment

\* risk_analysis returns Response(risk_assessment)
EndAssessment ==
    /\ assessing.pc = "done"
    /\ assessing' = NotAssessing
    /\ UnchangedByAssessment

InitConcurrent ==
    /\ ML_SERVICES_AVAILABLE = TRUE
    /\ price_model = FALSE
    /\ quality_model = FALSE
    /\ Crop = <<>>
    /\ MarketPrice = <<>>
    /\ call = Idle
    /\ result = NoResult
    /\ last_price = NoPrice
    /\ Contract = <<>>
    /\ Review = <<>>
    /\ assessing = NotAssessing

NextConcurrent ==
    \/ CreateContract
    \/ CompleteContract
    \/ DeleteContract
    \/ Respond
    \/ BeginAssessment
    \/ ReadFarmerCompleted
    \/ ReadFarmerTotal
    \/ ReadBuyerCompleted
    \/ ReadBuyerTotal
    \/ EndAssessment

SpecConcurrent == InitConcurrent /\ [][NextConcurrent]_vars

\* the completed and total counts an assessment has read for each party are in order
CountsInOrder ==
    /\ Len(assessing.reads) >= 2 => assessing.reads[1] <= assessing.reads[2]
    /\ Len(assessing.reads) = 4 => assessing.reads[3] <= assessing.reads[4]

\* the result of a finished assessment is the result for one of the stored states
\* that existed while it ran
ResultOfOneState ==
    assessing.pc = "done"
    => \E counts \in assessing.seen :
           assessing.result = Returned(assess_with_counts(assessing.contract, counts))

\* C22: while create, complete and delete requests run concurrently, the counts an
\* assessment uses satisfy completed <= total
C22_CountsInOrder ==
    assessing.pc # "idle" => CountsInOrder

\* C22, second half: the result of the assessment equals the result computed from one
\* single state of the stored data
C22_ResultOfOneState ==
    assessing.pc # "idle" => ResultOfOneState

\* C22: both halves
C22_ConsistentAssessment ==
    assessing.pc # "idle" => CountsInOrder /\ ResultOfOneState

----------------------------------------------------------------------------
(* The estimators beside the requests that write the stored rows *)

InitFrame ==
    /\ ML_SERVICES_AVAILABLE = TRUE
    /\ price_model = FALSE
    /\ quality_model = FALSE
    /\ Crop = <<>>
    /\ MarketPrice = <<>>
    /\ call = Idle
    /\ result = NoResult
    /\ last_price = NoPrice
    /\ Contract = <<>>
    /\ Review = <<>>
    /\ assessing = NotAssessing

NextFrame ==
    \/ SaveCrop
    \/ CreateContract
    \/ PredictPrice
    \/ AssessQuality
    \/ PredictYield
    \/ AssessContractRisk
    \/ Respond

SpecFrame == InitFrame /\ [][NextFrame]_vars

\* C23: a call of an estimator (price, quality, yield, contract risk) leaves the stored
\* Crop, MarketPrice, Contract and Review rows as they were
C23_EstimatorsWriteNothing ==
    [][(call = Idle /\ call'.op \in EstimatorOps)
       => UNCHANGED <<Crop, MarketPrice, Contract, Review>>]_vars

\* a price estimate has been returned while a crop row and a contract row are stored
C23_Witness ==
    /\ call.op = "predict_price"
    /\ call.crop_id = 1
    /\ result.outcome = "returned"
    /\ Crop # <<>>
    /\ DOMAIN Contract # {}
====
